---------------------------- MODULE Spec2Model ----------------------------
(***************************************************************************)
(* Agent A, the log reader and classifier of smart-devops-copilot          *)
(* (src/backend/agents/agent_a_reader.py), and the graph that runs the     *)
(* agents on one log (src/backend/core/orchestrator.py).                   *)
(*                                                                         *)
(* Text is modelled as a sequence of symbols.  A symbol stands for one     *)
(* phrase (a word, a trigger phrase, a JSON lexeme, a source identifier);  *)
(* the text a sequence denotes is its phrases joined by single blanks.     *)
(* For every regular expression of the source, the set of phrases the      *)
(* expression matches was computed with the expression itself; a pattern   *)
(* that spans phrases (A.*B, "status": 5xx) is searched over positions.    *)
(*                                                                         *)
(* Numbers the source holds as Python int/float are kept exactly as pairs  *)
(* [hi, lo] denoting hi * Base + lo with 0 <= lo < Base.  Epoch times the  *)
(* source holds as float seconds are kept in thousandths of a second.      *)
(* Confidences are kept in hundredths.                                     *)
(***************************************************************************)
EXTENDS Integers, Sequences, FiniteSets, TLC

VARIABLES
    pc,          \* position of the caller: which call is pending or done
    rules_arg,   \* argument of agent_a_reader.__init__
    rules,       \* self.rules
    rec,         \* LogRecord handed to _classify
    matched,     \* list returned by _classify
    ts_like,     \* argument of _coerce_ts
    coerced,     \* value returned by _coerce_ts
    now,         \* the wall clock, in ticks
    line,        \* argument of parse_log_line
    parsed,      \* (ts, msg, raw) returned by parse_log_line
    ev,          \* event of a filter_log_events page being handled
    log_group,   \* argument of process_cloudwatch
    adapter,     \* the adapter called: "file" or "iterable"
    path,        \* argument of process_file
    source_name, \* argument of process_file and process_iterable
    lines,       \* the lines of the file, or the iterable
    src,         \* source given to every record of the call
    done,        \* number of lines the loop has consumed
    findings,    \* the adapter's list of findings
    clock,       \* the wall clock read for each consumed line
    boto3,       \* whether "import boto3" succeeds
    store,       \* the remote log store: the response it gives to each request
    limit,       \* argument of process_cloudwatch
    kwargs,      \* keyword arguments of filter_log_events
    next_token,  \* process_cloudwatch's next_token
    resp,        \* the latest response of filter_log_events
    requested,   \* whether a remote request has been issued
    returned,    \* what the call handed back to its caller
    error,       \* the exception that reached the caller, "" if none
    summary,     \* value returned by _summarize
    payload,     \* value returned by to_agent_b_payload
    file,        \* content of the file written by dump_findings_jsonl
    log,         \* argument of analyze_log
    env,         \* what the orchestrator's collaborators do in this run
    state,       \* the OrchestratorState of the run
    visited      \* the nodes of the graph executed so far, in order

classifierVars == <<rules_arg, rules, rec, matched>>

coerceVars == <<ts_like, coerced>>

parseVars == <<now, line, parsed, ev, log_group>>

adapterVars == <<adapter, path, source_name, lines, src, done, findings, clock>>

cloudwatchVars == <<boto3, store, limit, kwargs, next_token, resp, requested, returned, error>>

outputVars == <<summary, payload, file>>

orchestratorVars == <<log, env, state, visited>>

vars == <<pc, classifierVars, coerceVars, parseVars, adapterVars, cloudwatchVars,
          outputVars, orchestratorVars>>

(***************************************************************************)
(* Bounds of the model.                                                    *)
(***************************************************************************)
MaxMsgLen == 2

(***************************************************************************)
(* Python's None where a string is expected.                               *)
(***************************************************************************)
None == "None"

(***************************************************************************)
(* Rule patterns: the phrases each compiled expression matches.            *)
(***************************************************************************)
PatternHits(pattern) ==
    CASE pattern = "iam_access_denied"   -> {"AccessDenied", "accessdenied", "User is not authorized"}
      [] pattern = "throttling"          -> {"ThrottlingException", "Rate exceeded"}
      [] pattern = "http_5xx"            -> {}
      [] pattern = "http_5xx_compact"    -> {}
      [] pattern = "lambda_timeout"      -> {"Task timed out after 3.00 seconds", "Endpoint request timed out"}
      [] pattern = "lambda_oom"          -> {"OutOfMemory"}
      [] pattern = "lambda_init_error"   -> {"Unhandled exception"}
      [] pattern = "container_crashloop" -> {"CrashLoopBackOff"}
      [] pattern = "image_pull_error"    -> {"ImagePullBackOff"}
      [] pattern = "oom_killed"          -> {"OOMKilled"}
      [] pattern = "dynamodb_conditional" -> {"ConditionalCheckFailedException"}
      [] pattern = "rds_lock_wait"       -> {"deadlock found"}
      [] pattern = "rds_connections"     -> {"too many connections"}
      [] pattern = "s3_access_denied"    -> {"NoSuchBucket"}
      [] pattern = "s3_slowdown"         -> {"SlowDown"}
      [] pattern = "apigw_timeout"       -> {"Endpoint request timed out"}
      [] pattern = "dns_or_network"      -> {"connection refused"}
      [] OTHER                           -> {}

\* Head and tail of the patterns of the form A.*B, and of "status"\s*:\s*5\d{2}.
PatternHead(pattern) ==
    CASE pattern = "http_5xx"         -> {"503"}
      [] pattern = "s3_access_denied" -> {"S3", "file:s3-sync.log"}
      [] pattern = "http_5xx_compact" -> {"\"status\":"}
      [] OTHER                        -> {}

PatternTail(pattern) ==
    CASE pattern = "http_5xx"         -> {"error"}
      [] pattern = "s3_access_denied" -> {"AccessDenied", "accessdenied"}
      [] pattern = "http_5xx_compact" -> {"503"}
      [] OTHER                        -> {}

\* rule.pattern.search(text): a match anywhere in the text.
Search(pattern, text) ==
    \/ \E i \in 1..Len(text) : text[i] \in PatternHits(pattern)
    \/ /\ pattern \in {"http_5xx", "s3_access_denied"}
       /\ \E i \in 1..Len(text) : \E j \in (i+1)..Len(text) :
             text[i] \in PatternHead(pattern) /\ text[j] \in PatternTail(pattern)
    \/ /\ pattern = "http_5xx_compact"
       /\ \E i \in 1..(Len(text) - 1) :
             text[i] \in PatternHead(pattern) /\ text[i+1] \in PatternTail(pattern)

(***************************************************************************)
(* The rule table.                                                         *)
(***************************************************************************)
Rule(name, pattern, category, severity, probable_cause, remediation_hint, confidence, service_bias) ==
    [name |-> name, pattern |-> pattern, category |-> category, severity |-> severity,
     probable_cause |-> probable_cause, remediation_hint |-> remediation_hint,
     confidence |-> confidence, service_bias |-> service_bias]

DEFAULT_RULES == <<
    Rule("iam_access_denied", "iam_access_denied", "iam_access_denied", "high",
         "Request blocked by IAM/authorization policy.", "fix_iam_policy", 95, None),
    Rule("throttling", "throttling", "throttling", "medium",
         "Service is throttling due to rate/capacity limits.", "retry_with_backoff_or_scale", 90, None),
    Rule("http_5xx", "http_5xx", "http_5xx", "high",
         "Backend error surfaced as HTTP 5xx.", "check_dependency_and_scale", 85, None),
    Rule("http_5xx_compact", "http_5xx_compact", "http_5xx", "high",
         "Backend error surfaced as HTTP 5xx.", "check_dependency_and_scale", 80, None),
    Rule("lambda_timeout", "lambda_timeout", "lambda_timeout", "high",
         "Lambda exceeded configured timeout.", "increase_timeout_or_optimize", 90, "lambda"),
    Rule("lambda_oom", "lambda_oom", "lambda_oom", "high",
         "Lambda ran out of memory.", "increase_memory_or_optimize", 90, "lambda"),
    Rule("lambda_init_error", "lambda_init_error", "lambda_init_error", "medium",
         "Lambda init/unhandled exception.", "fix_code_or_dependencies", 70, "lambda"),
    Rule("container_crashloop", "container_crashloop", "container_crashloop", "high",
         "Container restarting repeatedly.", "inspect_pod_logs_fix_crash", 95, "eks"),
    Rule("image_pull_error", "image_pull_error", "image_pull_error", "high",
         "Image pull failed (auth/tag/network).", "fix_image_or_registry_access", 95, None),
    Rule("oom_killed", "oom_killed", "oom_killed", "high",
         "Container killed due to OOM.", "increase_memory_or_optimize", 90, None),
    Rule("dynamodb_conditional", "dynamodb_conditional", "dynamodb_conditional", "low",
         "DynamoDB conditional write failed (app logic).", "handle_expected_failure_or_retry", 80, "dynamodb"),
    Rule("rds_lock_wait", "rds_lock_wait", "rds_lock_contention", "medium",
         "RDS lock contention or deadlock.", "optimize_queries_or_isolation", 70, "rds"),
    Rule("rds_connections", "rds_connections", "rds_too_many_connections", "high",
         "RDS connection limit exceeded.", "use_pooling_or_increase_limit", 85, "rds"),
    Rule("s3_access_denied", "s3_access_denied", "s3_access_error", "high",
         "S3 access/signature/bucket error.", "verify_bucket_policy_and_credentials", 90, "s3"),
    Rule("s3_slowdown", "s3_slowdown", "s3_slowdown", "low",
         "S3 throttling/slowdown response.", "retry_with_backoff", 70, "s3"),
    Rule("apigw_timeout", "apigw_timeout", "apigw_timeout", "medium",
         "API Gateway integration timeout/config error.", "increase_timeout_or_fix_integration", 80, "apigw"),
    Rule("dns_or_network", "dns_or_network", "network_error", "medium",
         "Network/DNS connectivity problem.", "repair_networking_or_retries", 75, None)
>>


(***************************************************************************)
(* Exact numbers: [hi, lo] denotes hi * Base + lo, 0 <= lo < Base.         *)
(***************************************************************************)
Base == 1000 * 1000

Big(hi, lo) == [hi |-> hi, lo |-> lo]

BigGT(a, b) == a.hi > b.hi \/ (a.hi = b.hi /\ a.lo > b.lo)

BigZero == Big(0, 0)

\* a * 1000, for |a| below 2 * 10^12
BigTimes1000(a) ==
    Big(a.hi * 1000 + (a.lo * 1000) \div Base, (a.lo * 1000) % Base)

\* s whole seconds (|s| < 2^31) as thousandths of a second
Seconds(s) == Big(s \div 1000, (s % 1000) * 1000)

\* -a
BigNeg(a) == IF a.lo = 0 THEN Big(0 - a.hi, 0) ELSE Big(0 - a.hi - 1, Base - a.lo)

(***************************************************************************)
(* Values a timestamp field can hold (what json.loads or boto3 delivers):  *)
(* None, a number, a string (a text), or anything else (list, dict).       *)
(***************************************************************************)
Val(kind, n, s) == [kind |-> kind, n |-> n, s |-> s]

NoneVal == Val("none", BigZero, <<>>)

NumVal(n) == Val("num", n, <<>>)

StrVal(s) == Val("str", BigZero, s)

OtherVal == Val("other", BigZero, <<>>)

\* An int beyond the range of a float (abs(n) >= 2**1024, such as 10**309).
HugeVal == Val("huge", BigZero, <<>>)

\* Optional[float]: None, or an epoch time in thousandths of a second;
\* raises is TRUE where the call raises instead of returning
NoTs == [ok |-> FALSE, t |-> BigZero, raises |-> FALSE]

SomeTs(t) == [ok |-> TRUE, t |-> t, raises |-> FALSE]

\* OverflowError: int too large to convert to float
OverflowError == [ok |-> FALSE, t |-> BigZero, raises |-> TRUE]

\* 1e10 and 1e12
TenToThe10 == Big(10000, 0)

TenToThe12 == Big(1000000, 0)

\* dt.datetime.fromisoformat(s.replace("Z", "+00:00")).timestamp(), in whole
\* seconds; fails on every other text
IsIsoFormat(s) == s \in {<<"2023-11-14T22:13:20Z">>, <<"1970-01-01T00:00:00Z">>}

FromIsoFormat(s) ==
    CASE s = <<"2023-11-14T22:13:20Z">> -> Seconds(1700000000)
      [] s = <<"1970-01-01T00:00:00Z">> -> Seconds(0)

\* float(s): the number a numeric literal denotes; fails on every other text
IsNumeric(s) ==
    s \in {<<"0">>, <<"1700000000">>, <<"1700000000000">>, <<"10000000000">>,
           <<"10000000001">>, <<"-1700000000000">>, <<"503">>}

ToFloat(s) ==
    CASE s = <<"0">>              -> Big(0, 0)
      [] s = <<"1700000000">>     -> Big(1700, 0)
      [] s = <<"1700000000000">>  -> Big(1700000, 0)
      [] s = <<"10000000000">>    -> Big(10000, 0)
      [] s = <<"10000000001">>    -> Big(10000, 1)
      [] s = <<"-1700000000000">> -> Big(0 - 1700000, 0)
      [] s = <<"503">>            -> Big(0, 503)

\* _coerce_ts with the numeric branch applied to what float(ts_like) reads.
CoerceTsRescaleStrings(v) ==
    CASE v.kind = "none" -> NoTs
      [] v.kind = "huge" -> OverflowError
      [] v.kind = "num" ->
            IF BigGT(v.n, TenToThe12) \/ BigGT(v.n, TenToThe10)
            THEN SomeTs(v.n)
            ELSE SomeTs(BigTimes1000(v.n))
      [] v.kind = "str" ->
            IF IsIsoFormat(v.s) THEN SomeTs(FromIsoFormat(v.s))
            ELSE IF IsNumeric(v.s)
            THEN IF BigGT(ToFloat(v.s), TenToThe10)
                 THEN SomeTs(ToFloat(v.s))
                 ELSE SomeTs(BigTimes1000(ToFloat(v.s)))
            ELSE NoTs
      [] OTHER -> NoTs

\* A number above 1e10 is taken as milliseconds (ts_like / 1000.0), any other
\* number as seconds (float(ts_like)); both conversions raise for an int
\* beyond the range of a float. A string is parsed as ISO-8601, then as a
\* plain number.
_coerce_ts(v) ==
    CASE v.kind = "none" -> NoTs
      [] v.kind = "huge" -> OverflowError
      [] v.kind = "num" ->
            IF BigGT(v.n, TenToThe12) \/ BigGT(v.n, TenToThe10)
            THEN SomeTs(v.n)
            ELSE SomeTs(BigTimes1000(v.n))
      [] v.kind = "str" ->
            IF IsIsoFormat(v.s) THEN SomeTs(FromIsoFormat(v.s))
            ELSE IF IsNumeric(v.s) THEN SomeTs(BigTimes1000(ToFloat(v.s)))
            ELSE NoTs
      [] OTHER -> NoTs

CoerceIdle == ts_like = NoneVal /\ coerced = NoTs

(***************************************************************************)
(* Dictionaries (a decoded JSON object, a CloudWatch event): functions     *)
(* from key names to values.                                               *)
(***************************************************************************)
EmptyDict == [k \in {} |-> NoneVal]

DictPut(d, key, v) == [k \in DOMAIN d \cup {key} |-> IF k = key THEN v ELSE d[k]]

\* d.get(key): None when the key is absent
DictGet(d, key) == IF key \in DOMAIN d THEN d[key] ELSE NoneVal

(***************************************************************************)
(* json.loads on a text that starts with "{" and ends with "}": members    *)
(* separated by ",", each a key lexeme followed by a value; a value is a   *)
(* number literal, null, [] or a string between two quote lexemes.         *)
(***************************************************************************)
\* The literal of 10**309: json.loads reads it as an int.
HUGE_INT == "1000000000000000000000000000000000000000000000000000000000000000000000000000000000000000000000000000000000000000000000000000000000000000000000000000000000000000000000000000000000000000000000000000000000000000000000000000000000000000000000000000000000000000000000000000000000000000000000000000000000000000000000"

KeyName(lexeme) ==
    CASE lexeme = "\"timestamp\":"  -> "timestamp"
      [] lexeme = "\"ts\":"         -> "ts"
      [] lexeme = "\"time\":"       -> "time"
      [] lexeme = "\"@timestamp\":" -> "@timestamp"
      [] lexeme = "\"eventTime\":"  -> "eventTime"
      [] lexeme = "\"message\":"    -> "message"
      [] lexeme = "\"msg\":"        -> "msg"
      [] lexeme = "\"log\":"        -> "log"
      [] lexeme = "\"@message\":"   -> "@message"
      [] lexeme = "\"status\":"     -> "status"
      [] lexeme = "\"level\":"      -> "level"
      [] OTHER                      -> None

Quote == "\""

\* Position of the first quote lexeme at or after i; 0 when there is none.
RECURSIVE NextQuote(_, _)
NextQuote(t, i) ==
    IF i > Len(t) THEN 0
    ELSE IF t[i] = Quote THEN i
    ELSE NextQuote(t, i + 1)

\* The value that starts at position i: [ok, v, next].
JsonValue(t, i) ==
    IF i > Len(t) THEN [ok |-> FALSE, v |-> NoneVal, next |-> i]
    ELSE IF t[i] = "null" THEN [ok |-> TRUE, v |-> NoneVal, next |-> i + 1]
    ELSE IF t[i] = "[]" THEN [ok |-> TRUE, v |-> OtherVal, next |-> i + 1]
    ELSE IF t[i] = HUGE_INT THEN [ok |-> TRUE, v |-> HugeVal, next |-> i + 1]
    ELSE IF IsNumeric(<<t[i]>>) THEN [ok |-> TRUE, v |-> NumVal(ToFloat(<<t[i]>>)), next |-> i + 1]
    ELSE IF t[i] = Quote /\ NextQuote(t, i + 1) # 0
         THEN [ok |-> TRUE, v |-> StrVal(SubSeq(t, i + 1, NextQuote(t, i + 1) - 1)),
               next |-> NextQuote(t, i + 1) + 1]
    ELSE [ok |-> FALSE, v |-> NoneVal, next |-> i]

\* The members from position i up to the closing brace; a later member
\* replaces an earlier one with the same key.
RECURSIVE JsonMembers(_, _, _)
JsonMembers(t, i, obj) ==
    IF i >= Len(t) \/ KeyName(t[i]) = None THEN [ok |-> FALSE, obj |-> EmptyDict]
    ELSE LET val == JsonValue(t, i + 1)
         IN  IF ~val.ok THEN [ok |-> FALSE, obj |-> EmptyDict]
             ELSE IF val.next = Len(t)
                  THEN [ok |-> TRUE, obj |-> DictPut(obj, KeyName(t[i]), val.v)]
             ELSE IF val.next < Len(t) /\ t[val.next] = ","
                  THEN JsonMembers(t, val.next + 1, DictPut(obj, KeyName(t[i]), val.v))
             ELSE [ok |-> FALSE, obj |-> EmptyDict]

\* [ok, obj]: ok is FALSE where json.loads raises
JsonLoads(t) ==
    IF Len(t) = 2 THEN [ok |-> TRUE, obj |-> EmptyDict]
    ELSE JsonMembers(t, 2, EmptyDict)

(***************************************************************************)
(* The record parser.                                                      *)
(***************************************************************************)
NL == "\n"

\* s.strip("\n")
RECURSIVE StripNL(_)
StripNL(t) ==
    IF t = <<>> THEN t
    ELSE IF Head(t) = NL THEN StripNL(Tail(t))
    ELSE IF t[Len(t)] = NL THEN StripNL(SubSeq(t, 1, Len(t) - 1))
    ELSE t

\* msg.startswith("{") and msg.endswith("}")
LooksLikeJson(t) == Len(t) >= 2 /\ t[1] = "{" /\ t[Len(t)] = "}"

TS_KEYS == <<"timestamp", "ts", "time", "@timestamp", "eventTime">>

MSG_KEYS == <<"message", "msg", "log", "@message">>

\* Python truthiness of an Optional[float]: neither None nor 0.0
TsTruthy(ts) == ts.ok /\ ts.t # BigZero

\* for key in [...]: if key in raw: ts = _coerce_ts(raw[key]); if ts: break
\* Where _coerce_ts raises, the loop ends with ts as it was: [ok, t] is the
\* value of ts and raises is TRUE.
RECURSIVE TsLoop(_, _, _)
TsLoop(raw, i, ts) ==
    IF i > Len(TS_KEYS) THEN ts
    ELSE IF TS_KEYS[i] \in DOMAIN raw
         THEN IF _coerce_ts(raw[TS_KEYS[i]]).raises
              THEN [ok |-> ts.ok, t |-> ts.t, raises |-> TRUE]
              ELSE IF TsTruthy(_coerce_ts(raw[TS_KEYS[i]]))
              THEN _coerce_ts(raw[TS_KEYS[i]])
              ELSE TsLoop(raw, i + 1, _coerce_ts(raw[TS_KEYS[i]]))
         ELSE TsLoop(raw, i + 1, ts)

\* for key in [...]: if key in raw and isinstance(raw[key], str): msg = raw[key]; break
RECURSIVE MsgLoop(_, _, _)
MsgLoop(raw, i, msg) ==
    IF i > Len(MSG_KEYS) THEN msg
    ELSE IF MSG_KEYS[i] \in DOMAIN raw /\ raw[MSG_KEYS[i]].kind = "str"
         THEN raw[MSG_KEYS[i]].s
         ELSE MsgLoop(raw, i + 1, msg)

\* time.time(), in thousandths of a second, at tick n of the wall clock
_now(n) == Seconds(1800000000 + n)

WrapperEmpty(msg) == EmptyDict

\* raw = {"raw": msg}
Wrapper(msg) == [k \in {"raw"} |-> StrVal(msg)]

Parsed(raised, ts, msg, raw) == [raised |-> raised, ts |-> ts, msg |-> msg, raw |-> raw]

ParseLogLineNoExcept(l, n) ==
    LET msg == StripNL(l)
    IN  IF LooksLikeJson(msg)
           /\ (~JsonLoads(msg).ok \/ TsLoop(JsonLoads(msg).obj, 1, NoTs).raises)
        THEN Parsed(TRUE, BigZero, <<>>, EmptyDict)
        ELSE IF LooksLikeJson(msg)
        THEN LET raw == JsonLoads(msg).obj
                 ts  == TsLoop(raw, 1, NoTs)
             IN  Parsed(FALSE, IF ts.ok THEN ts.t ELSE _now(n), MsgLoop(raw, 1, msg), raw)
        ELSE Parsed(FALSE, _now(n), msg, EmptyDict)

\* parse_log_line at tick n of the wall clock; `except Exception` takes
\* what json.loads raises and what _coerce_ts raises alike
parse_log_line(l, n) ==
    LET msg == StripNL(l)
    IN  IF LooksLikeJson(msg)
        THEN IF JsonLoads(msg).ok
             THEN LET raw == JsonLoads(msg).obj
                      ts  == TsLoop(raw, 1, NoTs)
                  IN  IF ts.raises
                      THEN Parsed(FALSE, IF ts.ok THEN ts.t ELSE _now(n), msg, Wrapper(msg))
                      ELSE Parsed(FALSE, IF ts.ok THEN ts.t ELSE _now(n),
                                  MsgLoop(raw, 1, msg), raw)
             ELSE Parsed(FALSE, _now(n), msg, Wrapper(msg))
        ELSE Parsed(FALSE, _now(n), msg, EmptyDict)

NoParsed == Parsed(FALSE, BigZero, <<>>, EmptyDict)

(***************************************************************************)
(* Service origin inference.                                               *)
(***************************************************************************)
HintHits(service) ==
    CASE service = "lambda"   -> {"REPORT RequestId", "cloudwatch:/aws/lambda/foo"}
      [] service = "apigw"    -> {"Method request"}
      [] service = "alb"      -> {"ELB-HealthChecker"}
      [] service = "ecs"      -> {"ecs-agent"}
      [] service = "eks"      -> {"CrashLoopBackOff", "ImagePullBackOff", "OOMKilled"}
      [] service = "s3"       -> {"S3", "file:s3-sync.log"}
      [] service = "dynamodb" -> {"DynamoDB"}
      [] service = "rds"      -> {"mysql", "cloudwatch:/aws/rds/db"}
      [] OTHER                -> {}

SERVICE_HINTS == <<"lambda", "apigw", "alb", "ecs", "eks", "s3", "dynamodb", "rds">>

\* The loop without its return: the last matching entry is the result.
RECURSIVE HintFromLastMatch(_, _)
HintFromLastMatch(hay, i) ==
    IF i > Len(SERVICE_HINTS) THEN None
    ELSE IF HintFromLastMatch(hay, i + 1) # None THEN HintFromLastMatch(hay, i + 1)
    ELSE IF \E k \in 1..Len(hay) : hay[k] \in HintHits(SERVICE_HINTS[i])
         THEN SERVICE_HINTS[i]
         ELSE None

\* for service, rx in SERVICE_HINTS: if rx.search(hay): return service
RECURSIVE HintFrom(_, _)
HintFrom(hay, i) ==
    IF i > Len(SERVICE_HINTS) THEN None
    ELSE IF \E k \in 1..Len(hay) : hay[k] \in HintHits(SERVICE_HINTS[i])
         THEN SERVICE_HINTS[i]
         ELSE HintFrom(hay, i + 1)

\* hay = f"{source} {message}"
_infer_service_hint(source, message) == HintFrom(<<source>> \o message, 1)

(***************************************************************************)
(* The classifier.                                                         *)
(***************************************************************************)
LogRecord(ts, message, source, service_hint, raw) ==
    [ts |-> ts, message |-> message, source |-> source, service_hint |-> service_hint, raw |-> raw]

\* Python truthiness of an Optional[str]
Truthy(s) == s # None /\ s # ""

Min(a, b) == IF a < b THEN a ELSE b

\* text[:n], n counted in characters: the phrases of a text are joined by
\* single blanks; the phrase the cut falls in is cut, and a cut right after
\* a blank leaves an empty last phrase.
RECURSIVE PrefixFrom(_, _, _)
PrefixFrom(text, i, n) ==
    IF i > Len(text) THEN <<>>
    ELSE IF Len(text[i]) >= n THEN <<SubSeq(text[i], 1, n)>>
    ELSE <<text[i]>> \o PrefixFrom(text, i + 1, n - Len(text[i]) - 1)

\* The whole text, uncut.
PrefixUncut(text, n) == text

Prefix(text, n) == PrefixFrom(text, 1, n)

EXCERPT_CAP == 500

BIAS_BONUS == 5

FALLBACK_CONFIDENCE == 30

RuleConfidenceNoCap(rule, r) ==
    IF Truthy(rule.service_bias) /\ r.service_hint = rule.service_bias
    THEN rule.confidence + BIAS_BONUS
    ELSE rule.confidence

RuleConfidenceNoBonus(rule, r) == rule.confidence

RuleConfidenceAnyHint(rule, r) ==
    IF Truthy(r.service_hint) THEN Min(100, rule.confidence + BIAS_BONUS) ELSE rule.confidence

\* conf = rule.confidence; boosted, capped at 1.0, when the hint equals the bias
RuleConfidence(rule, r) ==
    IF Truthy(rule.service_bias) /\ r.service_hint = rule.service_bias
    THEN Min(100, rule.confidence + BIAS_BONUS)
    ELSE rule.confidence

RuleFindingBiasFirst(rule, r) ==
    [ts |-> r.ts, category |-> rule.category, severity |-> rule.severity,
     probable_cause |-> rule.probable_cause, remediation_hint |-> rule.remediation_hint,
     confidence |-> RuleConfidence(rule, r), source |-> r.source,
     service |-> IF Truthy(rule.service_bias) THEN rule.service_bias ELSE r.service_hint,
     message_excerpt |-> Prefix(r.message, EXCERPT_CAP),
     meta |-> [rule |-> rule.name]]

RuleFinding(rule, r) ==
    [ts |-> r.ts, category |-> rule.category, severity |-> rule.severity,
     probable_cause |-> rule.probable_cause, remediation_hint |-> rule.remediation_hint,
     confidence |-> RuleConfidence(rule, r), source |-> r.source,
     service |-> IF Truthy(r.service_hint) THEN r.service_hint ELSE rule.service_bias,
     message_excerpt |-> Prefix(r.message, EXCERPT_CAP),
     meta |-> [rule |-> rule.name]]

FallbackFindingAsMedium(r) ==
    [ts |-> r.ts, category |-> "runbook", severity |-> "medium",
     probable_cause |-> "Unclassified log event.", remediation_hint |-> "manual_triage",
     confidence |-> FALLBACK_CONFIDENCE, source |-> r.source, service |-> r.service_hint,
     message_excerpt |-> Prefix(r.message, EXCERPT_CAP),
     meta |-> [rule |-> "none"]]

FallbackFinding(r) ==
    [ts |-> r.ts, category |-> "runbook", severity |-> "low",
     probable_cause |-> "Unclassified log event.", remediation_hint |-> "manual_triage",
     confidence |-> FALLBACK_CONFIDENCE, source |-> r.source, service |-> r.service_hint,
     message_excerpt |-> Prefix(r.message, EXCERPT_CAP),
     meta |-> [rule |-> "none"]]

RECURSIVE MatchLoopFirstOnly(_, _, _)
MatchLoopFirstOnly(rs, r, i) ==
    IF i > Len(rs) THEN <<>>
    ELSE IF Search(rs[i].pattern, r.message)
         THEN <<RuleFinding(rs[i], r)>>
         ELSE MatchLoopFirstOnly(rs, r, i + 1)

\* for rule in self.rules: if rule.pattern.search(rec.message): matched.append(...)
RECURSIVE MatchLoop(_, _, _)
MatchLoop(rs, r, i) ==
    IF i > Len(rs) THEN <<>>
    ELSE (IF Search(rs[i].pattern, r.message) THEN <<RuleFinding(rs[i], r)>> ELSE <<>>)
         \o MatchLoop(rs, r, i + 1)

ClassifyNoFallback(rs, r) == MatchLoop(rs, r, 1)

_classify(rs, r) ==
    LET m == MatchLoop(rs, r, 1)
    IN  IF m = <<>> THEN <<FallbackFinding(r)>> ELSE m


(***************************************************************************)
(* The remote adapter's handling of one event of a page.                   *)
(***************************************************************************)
\* f"cloudwatch:{log_group}"
CloudwatchSource(group) ==
    CASE group = "/aws/lambda/foo" -> "cloudwatch:/aws/lambda/foo"
      [] group = "/aws/rds/db"     -> "cloudwatch:/aws/rds/db"

\* ev.get("message", "")
EventMessage(e) == IF "message" \in DOMAIN e THEN e["message"].s ELSE <<>>

\* LogRecord(ts=ts or _now(), message=msg, source=src, service_hint=..., raw=ev)
EventRecord(e, group, n) ==
    LET ts == _coerce_ts(DictGet(e, "timestamp"))
    IN  LogRecord(IF TsTruthy(ts) THEN ts.t ELSE _now(n),
                  EventMessage(e),
                  CloudwatchSource(group),
                  _infer_service_hint(CloudwatchSource(group), EventMessage(e)),
                  e)

NoRecord == LogRecord(BigZero, <<>>, "", None, EmptyDict)

ParseIdle ==
    /\ now = 0
    /\ line = <<>>
    /\ parsed = NoParsed
    /\ ev = EmptyDict
    /\ log_group = ""

(***************************************************************************)
(* The file and iterable adapters: one loop iteration per line.            *)
(***************************************************************************)
\* f"file:{path}"
FileSource(p) ==
    CASE p = "app.log"     -> "file:app.log"
      [] p = "s3-sync.log" -> "file:s3-sync.log"
      [] OTHER             -> "file:missing.log"

\* open(path) succeeds
FileExists(p) == p \in {"app.log", "s3-sync.log"}

\* The record built from one line at tick n of the wall clock.
LineRecord(l, source, n) ==
    LogRecord(parse_log_line(l, n).ts, parse_log_line(l, n).msg, source,
              _infer_service_hint(source, parse_log_line(l, n).msg), parse_log_line(l, n).raw)

LineFindingsSkipUndecodable(rs, l, source, n) ==
    IF LooksLikeJson(StripNL(l)) /\ ~JsonLoads(StripNL(l)).ok
    THEN <<>>
    ELSE _classify(rs, LineRecord(l, source, n))

\* self._classify(rec) for the record of one line
LineFindings(rs, l, source, n) == _classify(rs, LineRecord(l, source, n))

AdapterIdle ==
    /\ adapter = ""
    /\ path = ""
    /\ source_name = None
    /\ lines = <<>>
    /\ src = ""
    /\ done = 0
    /\ findings = <<>>
    /\ clock = <<>>

(***************************************************************************)
(* The remote adapter, process_cloudwatch.  The remote store is the        *)
(* response filter_log_events gives to a request, as a function of the     *)
(* request's nextToken (None for a request that carries no token).  The    *)
(* arguments start_time_ms, end_time_ms, filter_pattern and region are     *)
(* handed to the store unread and are left out.                            *)
(***************************************************************************)
\* The continuation tokens the store hands out.
Tokens == {"t1", "t2"}

\* A response: the request raises, or it returns a page of events and the
\* value of resp.get("nextToken") (None when the key is absent or null).
Response(raises, events, nextToken) ==
    [raises |-> raises, events |-> events, nextToken |-> nextToken]

NoResponse == Response(FALSE, <<>>, None)

\* What a call hands back: nothing yet (or never), or a list of findings.
NoReturn == [ok |-> FALSE, value |-> <<>>]

Returned(fs) == [ok |-> TRUE, value |-> fs]

\* The "limit" of every request
HARD_CAP == 10000

\* kwargs = {"logGroupName": log_group, "limit": min(limit, 10000)}
Kwargs(group, lim, token) ==
    [logGroupName |-> group, limit |-> lim, nextToken |-> token]

NoKwargs == Kwargs("", 0, None)

InitialKwargs(group, lim) == Kwargs(group, Min(lim, HARD_CAP), None)

NextKwargsStale(kw, tok) == kw

\* if next_token: kwargs["nextToken"] = next_token
NextKwargs(kw, tok) ==
    IF Truthy(tok) THEN Kwargs(kw.logGroupName, kw.limit, tok) ELSE kw

\* logs.filter_log_events(**kwargs)
filter_log_events(st, kw) == st[kw.nextToken]

ResponseTokenIgnored(r) == None

\* next_token = resp.get("nextToken")
ResponseToken(r) == r.nextToken

ImportErrorSwallowed(available) == ""

\* import boto3; a failure is re-raised as RuntimeError
ImportError(available) == IF available THEN "" ELSE "RuntimeError"

\* for ev in events: findings.extend(self._classify(rec))
RECURSIVE PageFindings(_, _, _, _)
PageFindings(rs, events, group, n) ==
    IF events = <<>> THEN <<>>
    ELSE _classify(rs, EventRecord(Head(events), group, n))
         \o PageFindings(rs, Tail(events), group, n)

RequestFailureReturnsPartial(fs) ==
    [pc |-> "done", returned |-> Returned(fs), error |-> ""]

\* An exception of filter_log_events is not caught: it leaves the call, and
\* the local findings are dropped.
RequestFailure(fs) ==
    [pc |-> "raised", returned |-> NoReturn, error |-> "ClientError"]

CloudwatchIdle ==
    /\ boto3 = TRUE
    /\ store = [t \in {None} |-> NoResponse]
    /\ limit = 0
    /\ kwargs = NoKwargs
    /\ next_token = None
    /\ resp = NoResponse
    /\ requested = FALSE
    /\ returned = NoReturn
    /\ error = ""

(***************************************************************************)
(* Serialization of findings: Finding.to_dict, the summary, the payload    *)
(* for the next agent and the JSONL dump.                                  *)
(***************************************************************************)
BigGE(a, b) == ~BigGT(b, a)

\* The instants datetime.utcfromtimestamp accepts: years 1 to 9999.
MIN_UTC == Big(0 - 62135597, 200000)

END_UTC == Big(253402300, 800000)

Raises(fi) == ~(BigGE(fi.ts, MIN_UTC) /\ BigGT(END_UTC, fi.ts))

\* dt.datetime.utcfromtimestamp(self.ts).isoformat() + "Z": the text is kept
\* as the instant it spells out, marked with its suffix.
IsoFormat(ts) == [utc |-> ts, suffix |-> "Z"]

\* Finding.to_dict where it does not raise: asdict(self) plus "ts_iso"
to_dict(fi) ==
    [k \in DOMAIN fi \cup {"ts_iso"} |-> IF k = "ts_iso" THEN IsoFormat(fi.ts) ELSE fi[k]]

\* json.dumps(d, ensure_ascii=False): one JSON document, a text that holds
\* no line break (line breaks inside strings are written escaped).
Json(d) == [json |-> d]

CountOnce(d, k) == 1

\* d.get(k, 0) + 1
Count(d, k) == IF k \in DOMAIN d THEN d[k] + 1 ELSE 1

\* d[k] = d.get(k, 0) + 1
Tally(d, k) == [x \in DOMAIN d \cup {k} |-> IF x = k THEN Count(d, k) ELSE d[x]]

RECURSIVE SummarizeLoop(_, _, _, _)
SummarizeLoop(fs, i, counts, severities) ==
    IF i > Len(fs) THEN [by_category |-> counts, by_severity |-> severities]
    ELSE SummarizeLoop(fs, i + 1, Tally(counts, fs[i].category), Tally(severities, fs[i].severity))

_summarize(fs) == SummarizeLoop(fs, 1, EmptyDict, EmptyDict)

NoPayload == [raised |-> FALSE, value |-> EmptyDict]

\* The dictionary of to_agent_b_payload, or the exception of a to_dict call.
to_agent_b_payload(fs) ==
    IF \E i \in 1..Len(fs) : Raises(fs[i])
    THEN [raised |-> TRUE, value |-> EmptyDict]
    ELSE [raised |-> FALSE,
          value |-> [schema |-> "agent_a.v1",
                     summary_counts |-> _summarize(fs),
                     findings |-> [i \in 1..Len(fs) |-> to_dict(fs[i])]]]

\* A character written to a file.
Char(c) == [char |-> c]

\* "\\n": a backslash and the letter n
LINE_END == <<Char("\\"), Char("n")>>

\* for fi in findings: f.write(json.dumps(fi.to_dict(), ...) + "\\n"); what
\* was written before a to_dict call raises stays in the file.
RECURSIVE DumpLoop(_, _, _)
DumpLoop(fs, i, content) ==
    IF i > Len(fs) THEN [raised |-> FALSE, content |-> content]
    ELSE IF Raises(fs[i]) THEN [raised |-> TRUE, content |-> content]
    ELSE DumpLoop(fs, i + 1, content \o <<Json(to_dict(fs[i]))>> \o LINE_END)

dump_findings_jsonl(fs) == DumpLoop(fs, 1, <<>>)

OutputIdle ==
    /\ summary = EmptyDict
    /\ payload = NoPayload
    /\ file = <<>>

OrchestratorIdle ==
    /\ log = <<>>
    /\ env = EmptyDict
    /\ state = EmptyDict
    /\ visited = <<>>

(***************************************************************************)
(* Inputs of the classifier specification.                                 *)
(***************************************************************************)
\* All texts of at most n symbols over the alphabet W.
Texts(W, n) == UNION {[1..k -> W] : k \in 0..n}

ClassifyWords ==
    {"AccessDenied", "Rate exceeded", "503", "error",
     "Task timed out after 3.00 seconds", "CrashLoopBackOff", "S3", "info"}

ServiceTags == {SERVICE_HINTS[i] : i \in 1..Len(SERVICE_HINTS)}

\* A caller's rule table: base confidences 1.0 and 0.97 with a service bias.
CUSTOM_RULES == <<
    Rule("certain_crashloop", "container_crashloop", "container_crashloop", "critical",
         "Container restarting repeatedly.", "inspect_pod_logs_fix_crash", 100, "eks"),
    Rule("likely_timeout", "lambda_timeout", "lambda_timeout", "high",
         "Lambda exceeded configured timeout.", "increase_timeout_or_optimize", 97, "lambda"),
    Rule("any_throttle", "throttling", "throttling", "low",
         "Service is throttling due to rate/capacity limits.", "retry_with_backoff_or_scale", 5, None)
>>

\* rules: Optional[List[Rule]]
RulesArg(is_none, list) == [is_none |-> is_none, list |-> list]

RuleArgs == {RulesArg(TRUE, <<>>), RulesArg(FALSE, <<>>), RulesArg(FALSE, CUSTOM_RULES)}

Records ==
    {LogRecord(Seconds(1700000000), m, source, h, EmptyDict) :
        m \in Texts(ClassifyWords, MaxMsgLen),
        source \in {"iterable", "file:app.log"},
        h \in ServiceTags \cup {None}}

(***************************************************************************)
(* The classifier object: construction, then a call of _classify.          *)
(***************************************************************************)
Init ==
    /\ pc = "new"
    /\ rules_arg \in RuleArgs
    /\ rules = <<>>
    /\ rec \in Records
    /\ matched = <<>>
    /\ CoerceIdle
    /\ ParseIdle
    /\ AdapterIdle
    /\ CloudwatchIdle
    /\ OutputIdle
    /\ OrchestratorIdle

\* An empty list kept as the table.
SelfRulesEmptyKept(arg) == IF arg.is_none THEN DEFAULT_RULES ELSE arg.list

\* rules or DEFAULT_RULES
SelfRules(arg) == IF arg.is_none \/ arg.list = <<>> THEN DEFAULT_RULES ELSE arg.list

\* self.rules = rules or DEFAULT_RULES
Construct ==
    /\ pc = "new"
    /\ rules' = SelfRules(rules_arg)
    /\ pc' = "ready"
    /\ UNCHANGED <<rules_arg, rec, matched, coerceVars, parseVars, adapterVars, cloudwatchVars, outputVars, orchestratorVars>>

Classify ==
    /\ pc = "ready"
    /\ matched' = _classify(rules, rec)
    /\ pc' = "classified"
    /\ UNCHANGED <<rules_arg, rules, rec, coerceVars, parseVars, adapterVars, cloudwatchVars, outputVars, orchestratorVars>>

Next == Construct \/ Classify

Spec == Init /\ [][Next]_vars

(***************************************************************************)
(* Claims about _classify.                                                 *)
(***************************************************************************)
\* Indices of the rules whose pattern matches the record's message.
MatchingRules == {i \in 1..Len(rules) : Search(rules[i].pattern, rec.message)}

\* Position, in the returned list, of the Finding of matching rule i.
PosOf(i) == Cardinality({k \in MatchingRules : k <= i})

\* C1: for every record, classify returns a non-empty list of Findings.
C1_ClassifyNonEmpty == pc = "classified" => Len(matched) >= 1

C1_Witness ==
    /\ pc = "classified"
    /\ rec.message = <<>>
    /\ Len(matched) = 1

\* C2: when no rule matches, classify returns exactly one Finding, with category
\* "runbook", severity "low", confidence 0.3, hint "manual_triage" and
\* meta.rule = "none"; a Finding with meta.rule = "none" never comes together
\* with a rule-derived Finding.
C2_FallbackFinding ==
    pc = "classified" =>
        /\ MatchingRules = {} =>
              /\ Len(matched) = 1
              /\ matched[1].category = "runbook"
              /\ matched[1].severity = "low"
              /\ matched[1].confidence = 30
              /\ matched[1].remediation_hint = "manual_triage"
              /\ matched[1].meta.rule = "none"
        /\ (\E j \in 1..Len(matched) : matched[j].meta.rule = "none") =>
              Len(matched) = 1 /\ MatchingRules = {}

C2_Witness ==
    /\ pc = "classified"
    /\ rec.message = <<"info", "error">>
    /\ MatchingRules = {}
    /\ matched[1].meta.rule = "none"

\* C3: every rule is evaluated; k >= 1 matching rules give exactly k Findings,
\* one per matching rule in declaration order, each tagged with its rule's
\* name; under the default table an authorization-denial phrase together with
\* a throttling phrase gives at least two Findings of different categories.
C3_AllRulesEvaluated ==
    pc = "classified" =>
        /\ MatchingRules # {} =>
              /\ Len(matched) = Cardinality(MatchingRules)
              /\ \A i \in MatchingRules : matched[PosOf(i)].meta.rule = rules[i].name
        /\ ( /\ rules = DEFAULT_RULES
             /\ \E a \in 1..Len(rec.message) : rec.message[a] \in {"AccessDenied", "User is not authorized"}
             /\ \E b \in 1..Len(rec.message) : rec.message[b] \in {"Rate exceeded", "ThrottlingException"} )
           => \E x, y \in 1..Len(matched) : matched[x].category # matched[y].category

C3_Witness ==
    /\ pc = "classified"
    /\ rules = DEFAULT_RULES
    /\ rec.message = <<"Rate exceeded", "AccessDenied">>
    /\ Len(matched) = 2
    /\ matched[1].category = "iam_access_denied"
    /\ matched[2].category = "throttling"

\* C4: every Finding returned by classify has a confidence in (0, 1].
C4_ConfidenceRange ==
    pc = "classified" =>
        \A j \in 1..Len(matched) : matched[j].confidence > 0 /\ matched[j].confidence <= 100

C4_Witness ==
    /\ pc = "classified"
    /\ rules = CUSTOM_RULES
    /\ rec.service_hint = "lambda"
    /\ \E j \in 1..Len(matched) :
          matched[j].meta.rule = "likely_timeout" /\ matched[j].confidence = 100

\* Confidence of rule i's Finding for the same record without a service hint.
UnhintedConfidence(i) ==
    _classify(rules, [rec EXCEPT !.service_hint = None])[PosOf(i)].confidence

\* The rules with a service bias equal to the record's hint that match it.
BiasedMatches ==
    {i \in MatchingRules : Truthy(rules[i].service_bias) /\ rec.service_hint = rules[i].service_bias}

\* C5 as stated: with the hint equal to the rule's bias the confidence is
\* strictly higher than without a hint, and at most 1.0.
C5_BoostStrictlyHigher ==
    pc = "classified" =>
        \A i \in BiasedMatches :
            /\ matched[PosOf(i)].confidence > UnhintedConfidence(i)
            /\ matched[PosOf(i)].confidence <= 100

\* C5 as amended: strictly higher when the rule's base confidence is below
\* 1.0, equal (both 1.0) when it is 1.0; at most 1.0 in both cases.
C5_BoostCapped ==
    pc = "classified" =>
        \A i \in BiasedMatches :
            /\ rules[i].confidence < 100 => matched[PosOf(i)].confidence > UnhintedConfidence(i)
            /\ rules[i].confidence = 100 => matched[PosOf(i)].confidence = UnhintedConfidence(i)
            /\ matched[PosOf(i)].confidence <= 100

C5_Witness ==
    /\ pc = "classified"
    /\ rules = DEFAULT_RULES
    /\ rec.service_hint = "lambda"
    /\ \E i \in BiasedMatches :
          matched[PosOf(i)].confidence = 95 /\ UnhintedConfidence(i) = 90


\* C22: the confidence of a rule-derived Finding is the rule's base
\* confidence, or min(1.0, base + 0.05) when the rule has a service bias
\* equal to the record's hint; a rule without bias keeps its base confidence
\* whatever the hint.
C22_ConfidenceExact ==
    pc = "classified" =>
        \A i \in MatchingRules :
            /\ matched[PosOf(i)].confidence =
                  IF rules[i].service_bias # None /\ rules[i].service_bias = rec.service_hint
                  THEN (IF rules[i].confidence + 5 > 100 THEN 100 ELSE rules[i].confidence + 5)
                  ELSE rules[i].confidence
            /\ rules[i].service_bias = None => matched[PosOf(i)].confidence = rules[i].confidence

C22_Witness ==
    /\ pc = "classified"
    /\ rec.service_hint = "lambda"
    /\ \E i, j \in MatchingRules :
          /\ rules[i].service_bias = None
          /\ matched[PosOf(i)].confidence = rules[i].confidence
          /\ rules[j].service_bias = "lambda"
          /\ matched[PosOf(j)].confidence = rules[j].confidence + 5

\* C23: the service of a rule-derived Finding is the record's hint when the
\* record has one and the rule's bias otherwise; timestamp and source of
\* every Finding, rule-derived or fallback, are the record's.
C23_ServiceTimestampSource ==
    pc = "classified" =>
        /\ \A i \in MatchingRules :
              matched[PosOf(i)].service =
                  IF rec.service_hint # None THEN rec.service_hint ELSE rules[i].service_bias
        /\ \A j \in 1..Len(matched) :
              matched[j].ts = rec.ts /\ matched[j].source = rec.source

C23_Witness ==
    /\ pc = "classified"
    /\ rec.service_hint = None
    /\ \E i, j \in MatchingRules :
          /\ rules[i].service_bias = "lambda"
          /\ matched[PosOf(i)].service = "lambda"
          /\ rules[j].service_bias = None
          /\ matched[PosOf(j)].service = None
          /\ matched[PosOf(j)].source = "file:app.log"

(***************************************************************************)
(* The timestamp normalizer on its own: one call of _coerce_ts.            *)
(***************************************************************************)
ClassifierIdle ==
    /\ rules_arg = RulesArg(TRUE, <<>>)
    /\ rules = <<>>
    /\ rec = NoRecord
    /\ matched = <<>>

Numbers ==
    {Big(hi, lo) : hi \in {0 - 1700000, 0 - 10001, 0 - 1, 0, 1700, 9999, 10000, 10001, 1000000, 1700000},
                   lo \in {0, 1, 123, 999999}}

Strings ==
    {<<>>, <<"yesterday">>, <<"2023-11-14T22:13:20Z">>, <<"1970-01-01T00:00:00Z">>,
     <<"0">>, <<"1700000000">>, <<"1700000000000">>, <<"10000000000">>,
     <<"10000000001">>, <<"-1700000000000">>, <<"info", "error">>}

TsLikes ==
    {NoneVal, OtherVal, HugeVal} \cup {NumVal(n) : n \in Numbers} \cup {StrVal(s) : s \in Strings}

InitCoerce ==
    /\ pc = "call"
    /\ ts_like \in TsLikes
    /\ coerced = NoTs
    /\ ClassifierIdle
    /\ ParseIdle
    /\ AdapterIdle
    /\ CloudwatchIdle
    /\ OutputIdle
    /\ OrchestratorIdle

CoerceTs ==
    /\ pc = "call"
    /\ coerced' = _coerce_ts(ts_like)
    /\ pc' = IF coerced'.raises THEN "raised" ELSE "returned"
    /\ UNCHANGED <<ts_like, classifierVars, parseVars, adapterVars, cloudwatchVars, outputVars, orchestratorVars>>

NextCoerce == CoerceTs

SpecCoerce == InitCoerce /\ [][NextCoerce]_vars

\* |a|
BigAbs(a) == IF a.hi < 0 THEN BigNeg(a) ELSE a

\* C7: a numeric input whose magnitude exceeds 1e10 is divided by 1000, any
\* other numeric input is returned unchanged as seconds; 1700000000000 gives
\* 1700000000 and 1700000000 gives 1700000000.
C7_NumericByMagnitude ==
    (pc = "returned" /\ ts_like.kind = "num") =>
        /\ coerced.ok
        /\ BigGT(BigAbs(ts_like.n), TenToThe10) => coerced.t = ts_like.n
        /\ ~BigGT(BigAbs(ts_like.n), TenToThe10) => coerced.t = BigTimes1000(ts_like.n)
        /\ ts_like.n = Big(1700000, 0) => coerced.t = Seconds(1700000000)
        /\ ts_like.n = Big(1700, 0) => coerced.t = Seconds(1700000000)

\* C28: the normalizer never raises; a string is read as ISO-8601 (a trailing
\* Z meaning UTC), else as a plain number, else it is unrepresentable; None
\* and values of any other type are unrepresentable.
C28_NeverRaises ==
    /\ pc # "raised"
    /\ pc = "returned" =>
          /\ ts_like.kind = "str" =>
                IF IsIsoFormat(ts_like.s) THEN coerced = SomeTs(FromIsoFormat(ts_like.s))
                ELSE IF IsNumeric(ts_like.s) THEN coerced.ok
                ELSE coerced = NoTs
          /\ ts_like.kind \in {"none", "other"} => coerced = NoTs

\* C29: a string that float() reads is returned as the number it spells,
\* whatever its magnitude; a number above 1e10 is divided by 1000. The string
\* "1700000000000" gives 1700000000000 and the number gives 1700000000.
C29_NumericStringNotRescaled ==
    pc = "returned" =>
        /\ (ts_like.kind = "str" /\ IsNumeric(ts_like.s)) =>
                coerced = SomeTs(BigTimes1000(ToFloat(ts_like.s)))
        /\ ts_like = StrVal(<<"1700000000000">>) =>
                coerced = SomeTs(BigTimes1000(Big(1700000, 0)))
        /\ ts_like = NumVal(Big(1700000, 0)) => coerced = SomeTs(Seconds(1700000000))

C29_Witness ==
    /\ pc = "returned"
    /\ ts_like = StrVal(<<"1700000000000">>)
    /\ coerced.ok
    /\ coerced.t = Big(1700000000, 0)
    /\ coerced.t # Seconds(1700000000)


(***************************************************************************)
(* The record parser on its own (one call of parse_log_line), and the      *)
(* remote adapter's handling of one event, under an advancing wall clock.  *)
(***************************************************************************)
MaxNow == 1

MaxFields == 2

\* Members of a JSON object: a key lexeme followed by a value.
Quoted(text) == <<Quote>> \o text \o <<Quote>>

TsMembers ==
    {<<"\"timestamp\":">> \o v :
        v \in {<<"0">>, <<"1700000000">>, <<"1700000000000">>, <<"null">>,
               Quoted(<<"yesterday">>), Quoted(<<"2023-11-14T22:13:20Z">>)}}
    \cup {<<"\"ts\":">> \o v : v \in {<<"0">>, <<"1700000000">>, Quoted(<<"yesterday">>)}}
    \cup {<<k, HUGE_INT>> : k \in {"\"timestamp\":", "\"ts\":"}}
    \cup {<<k>> \o v : k \in {"\"time\":", "\"@timestamp\":", "\"eventTime\":"},
                       v \in {<<"10000000001">>, Quoted(<<"yesterday">>)}}

MsgMembers ==
    {<<"\"message\":">> \o Quoted(<<"AccessDenied">>), <<"\"message\":", "503">>,
     <<"\"msg\":">> \o Quoted(<<"Rate exceeded", "info">>), <<"\"msg\":", "null">>,
     <<"\"log\":">> \o Quoted(<<"CrashLoopBackOff">>),
     <<"\"@message\":">> \o Quoted(<<"info">>)}

OtherMembers == {<<"\"status\":", "503">>, <<"\"level\":">> \o Quoted(<<"error">>)}

Members == TsMembers \cup MsgMembers \cup OtherMembers

\* The texts of k members separated by ",".
RECURSIVE MemberLists(_)
MemberLists(k) ==
    IF k = 0 THEN {<<>>}
    ELSE IF k = 1 THEN Members
    ELSE {m \o <<",">> \o rest : m \in Members, rest \in MemberLists(k - 1)}

JsonLines == {<<"{">> \o body \o <<"}">> : body \in UNION {MemberLists(k) : k \in 0..MaxFields}}

\* Brace-delimited lines json.loads rejects.
BadJsonLines ==
    {<<"{", "info", "}">>,
     <<"{", "\"message\":", Quote, "AccessDenied", "}">>,
     <<"{", "\"timestamp\":", "1700000000", ",", "}">>,
     <<"{", "\"timestamp\":", "1700000000", "\"ts\":", "0", "}">>,
     <<"{", "\"timestamp\":", "}">>,
     <<"{", "AccessDenied", "Rate exceeded", "}">>}

TextLines == Texts({"info", "AccessDenied", "Rate exceeded", "{", "}"}, MaxMsgLen)

\* An input line ends with at most one newline.
Lines ==
    LET bare == JsonLines \cup BadJsonLines \cup TextLines
    IN  bare \cup {l \o <<NL>> : l \in bare}

Events ==
    {[k \in ks |-> IF k = "timestamp" THEN t ELSE m] :
        ks \in SUBSET {"timestamp", "message"},
        t \in {NumVal(Big(0, 0)), NumVal(Big(1700000, 0)), NumVal(Big(1700, 0))},
        m \in {StrVal(<<"info">>), StrVal(<<"Task timed out after 3.00 seconds">>)}}

LogGroups == {"/aws/lambda/foo", "/aws/rds/db"}

InitParse ==
    /\ now = 0
    /\ parsed = NoParsed
    /\ rules_arg = RulesArg(TRUE, <<>>)
    /\ rules = DEFAULT_RULES
    /\ rec = NoRecord
    /\ matched = <<>>
    /\ CoerceIdle
    /\ AdapterIdle
    /\ CloudwatchIdle
    /\ OutputIdle
    /\ OrchestratorIdle
    /\ \/ pc = "call" /\ line \in Lines /\ ev = EmptyDict /\ log_group = ""
       \/ pc = "event" /\ line = <<>> /\ ev \in Events /\ log_group \in LogGroups

\* The wall clock advances before the call.
Tick ==
    /\ pc \in {"call", "event"}
    /\ now < MaxNow
    /\ now' = now + 1
    /\ UNCHANGED <<pc, line, parsed, ev, log_group, classifierVars, coerceVars, adapterVars, cloudwatchVars, outputVars, orchestratorVars>>

ParseLine ==
    /\ pc = "call"
    /\ parsed' = parse_log_line(line, now)
    /\ pc' = "returned"
    /\ UNCHANGED <<now, line, ev, log_group, classifierVars, coerceVars, adapterVars, cloudwatchVars, outputVars, orchestratorVars>>

\* One iteration of process_cloudwatch's loop over the events of a page.
HandleEvent ==
    /\ pc = "event"
    /\ rec' = EventRecord(ev, log_group, now)
    /\ matched' = _classify(rules, rec')
    /\ pc' = "handled"
    /\ UNCHANGED <<now, line, parsed, ev, log_group, rules_arg, rules, coerceVars, adapterVars, cloudwatchVars, outputVars, orchestratorVars>>

NextParse == Tick \/ ParseLine \/ HandleEvent

SpecParse == InitParse /\ [][NextParse]_vars


(***************************************************************************)
(* Claims about the record parser and the timestamp of a record.           *)
(***************************************************************************)
\* The line without its trailing newline.
Chomp(l) == IF l # <<>> /\ l[Len(l)] = NL THEN SubSeq(l, 1, Len(l) - 1) ELSE l

\* The line is brace-delimited and json.loads decodes it.
Decodable(l) == LooksLikeJson(Chomp(l)) /\ JsonLoads(Chomp(l)).ok

\* The timestamp fields of a payload that the normalizer resolves.
ResolvedFields(raw) ==
    {i \in 1..Len(TS_KEYS) : TS_KEYS[i] \in DOMAIN raw /\ _coerce_ts(raw[TS_KEYS[i]]).ok}

\* The walk over the timestamp fields reaches a value on which the normalizer
\* raises: no earlier field has stopped the walk.
Overflows(raw) ==
    \E i \in 1..Len(TS_KEYS) :
        /\ TS_KEYS[i] \in DOMAIN raw
        /\ raw[TS_KEYS[i]].kind = "huge"
        /\ \A j \in 1..(i - 1) :
              TS_KEYS[j] \in DOMAIN raw => ~TsTruthy(_coerce_ts(raw[TS_KEYS[j]]))

\* C6: the timestamp of the record built from a line, or from an event of the
\* remote adapter, is the normalized value of the record's timestamp field
\* when one was resolved, and the wall-clock time of the call otherwise.
C6_TimestampResolvedOrNow ==
    /\ pc = "returned" =>
          LET raw == IF Decodable(line) THEN JsonLoads(Chomp(line)).obj ELSE EmptyDict
          IN  IF ResolvedFields(raw) # {}
              THEN \E i \in ResolvedFields(raw) : parsed.ts = _coerce_ts(raw[TS_KEYS[i]]).t
              ELSE parsed.ts = _now(now)
    /\ pc = "handled" =>
          IF _coerce_ts(DictGet(ev, "timestamp")).ok
          THEN rec.ts = _coerce_ts(DictGet(ev, "timestamp")).t
          ELSE rec.ts = _now(now)

\* C8: the parser never raises; for a line that is plain text, or that is
\* brace-delimited but fails to decode, the message is the whole line without
\* its trailing newline and the timestamp is the current time.
C8_MalformedNeverRaises ==
    pc = "returned" =>
        /\ ~parsed.raised
        /\ ~Decodable(line) => parsed.msg = Chomp(line) /\ parsed.ts = _now(now)

C8_Witness ==
    /\ pc = "returned"
    /\ line = <<"{", "\"message\":", Quote, "AccessDenied", "}", NL>>
    /\ now = 1
    /\ parsed.msg = <<"{", "\"message\":", Quote, "AccessDenied", "}">>
    /\ parsed.ts = _now(1)

\* C9 as stated: raw is the decoded payload of a decodable line and, for any
\* other line (plain text, or brace-delimited but undecodable), a single-key
\* wrapper holding the line.
C9_RawDecodedOrWrapper ==
    pc = "returned" =>
        IF Decodable(line)
        THEN parsed.raw = JsonLoads(Chomp(line)).obj
        ELSE DOMAIN parsed.raw = {"raw"} /\ parsed.raw["raw"] = StrVal(Chomp(line))

\* C9 as amended: the wrapper is built only for a brace-delimited line that
\* fails to decode or whose timestamp fields cannot be read without error; a
\* line that is not brace-delimited has the empty payload.
C9_RawDecodedWrapperOrEmpty ==
    pc = "returned" =>
        IF Decodable(line) /\ ~Overflows(JsonLoads(Chomp(line)).obj)
        THEN parsed.raw = JsonLoads(Chomp(line)).obj
        ELSE IF LooksLikeJson(Chomp(line))
        THEN DOMAIN parsed.raw = {"raw"} /\ parsed.raw["raw"] = StrVal(Chomp(line))
        ELSE DOMAIN parsed.raw = {}

C9_Witness ==
    /\ pc = "returned"
    /\ line = <<"{", "info", "}", NL>>
    /\ DOMAIN parsed.raw = {"raw"}
    /\ parsed.raw["raw"].s = <<"{", "info", "}">>

\* C25: for a line that decodes, the timestamp of the record is the value of
\* the first field, in the order timestamp, ts, time, @timestamp, eventTime,
\* that the normalizer accepts: absent and rejected fields are passed over,
\* later fields are not consulted; with no such field it is the current time.
C25_FirstAcceptedFieldWins ==
    (pc = "returned" /\ Decodable(line)) =>
        LET raw == JsonLoads(Chomp(line)).obj
        IN  IF ResolvedFields(raw) = {}
            THEN parsed.ts = _now(now)
            ELSE \E i \in ResolvedFields(raw) :
                    /\ \A j \in ResolvedFields(raw) : i <= j
                    /\ parsed.ts = _coerce_ts(raw[TS_KEYS[i]]).t

\* The message fields of a payload that hold a string.
StringFields(raw) ==
    {i \in 1..Len(MSG_KEYS) : MSG_KEYS[i] \in DOMAIN raw /\ raw[MSG_KEYS[i]].kind = "str"}

\* C26: for a line that decodes, the message is the first string among the
\* fields message, msg, log, @message, a field holding anything else being
\* passed over; with no such field it is the raw line.
C26_FirstStringFieldWins ==
    (pc = "returned" /\ Decodable(line)) =>
        LET raw == JsonLoads(Chomp(line)).obj
        IN  IF StringFields(raw) = {}
            THEN parsed.msg = Chomp(line)
            ELSE \E i \in StringFields(raw) :
                    /\ \A j \in StringFields(raw) : i <= j
                    /\ parsed.msg = raw[MSG_KEYS[i]].s


(***************************************************************************)
(* One call of process_file or process_iterable.                           *)
(***************************************************************************)
MaxLines == 2

AdapterLines ==
    {<<>>,
     <<"info">>,
     <<"AccessDenied", "Rate exceeded">>,
     <<"{", "info", "}">>,
     <<"{", "\"timestamp\":", "1700000000", ",", "\"message\":", Quote, "CrashLoopBackOff", Quote, "}">>,
     <<"{", "\"status\":", "503", "}">>}

\* The lines a file iteration yields end with a newline, except perhaps the
\* last; the strings of an iterable are the caller's.
FileContents ==
    {c \in UNION {[1..k -> {l \o <<NL>> : l \in AdapterLines} \cup (AdapterLines \ {<<>>})] : k \in 0..MaxLines} :
        \A i \in 1..(Len(c) - 1) : c[i][Len(c[i])] = NL}

Iterables == UNION {[1..k -> AdapterLines] : k \in 0..MaxLines}

InitAdapter ==
    /\ pc = "start"
    /\ rules_arg = RulesArg(TRUE, <<>>)
    /\ rules = DEFAULT_RULES
    /\ rec = NoRecord
    /\ matched = <<>>
    /\ CoerceIdle
    /\ ParseIdle
    /\ CloudwatchIdle
    /\ OutputIdle
    /\ OrchestratorIdle
    /\ src = ""
    /\ done = 0
    /\ findings = <<>>
    /\ clock = <<>>
    /\ \/ /\ adapter = "file"
          /\ path \in {"app.log", "s3-sync.log", "missing.log"}
          /\ source_name \in {None, "", "single_log"}
          /\ lines \in IF FileExists(path) THEN FileContents ELSE {<<>>}
       \/ /\ adapter = "iterable"
          /\ path = ""
          /\ source_name \in {"iterable", "single_log"}
          /\ lines \in Iterables

\* src = source_name or f"file:{path}"; open(path) raises for a missing file
OpenFile ==
    /\ pc = "start"
    /\ adapter = "file"
    /\ src' = IF Truthy(source_name) THEN source_name ELSE FileSource(path)
    /\ pc' = IF FileExists(path) THEN "loop" ELSE "raised"
    /\ UNCHANGED <<adapter, path, source_name, lines, done, findings, clock,
                   classifierVars, coerceVars, parseVars, cloudwatchVars, outputVars, orchestratorVars>>

StartIterable ==
    /\ pc = "start"
    /\ adapter = "iterable"
    /\ src' = source_name
    /\ pc' = "loop"
    /\ UNCHANGED <<adapter, path, source_name, lines, done, findings, clock,
                   classifierVars, coerceVars, parseVars, cloudwatchVars, outputVars, orchestratorVars>>

\* The wall clock advances between two lines.
TickAdapter ==
    /\ pc = "loop"
    /\ now < MaxNow
    /\ now' = now + 1
    /\ UNCHANGED <<pc, line, parsed, ev, log_group, classifierVars, coerceVars, adapterVars, cloudwatchVars, outputVars, orchestratorVars>>

\* for line in ...: parse, build the record, findings.extend(self._classify(rec))
ProcessLine ==
    /\ pc = "loop"
    /\ done < Len(lines)
    /\ findings' = findings \o LineFindings(rules, lines[done + 1], src, now)
    /\ done' = done + 1
    /\ clock' = Append(clock, now)
    /\ UNCHANGED <<pc, adapter, path, source_name, lines, src,
                   classifierVars, coerceVars, parseVars, cloudwatchVars, outputVars, orchestratorVars>>

\* return findings
ReturnFindings ==
    /\ pc = "loop"
    /\ done = Len(lines)
    /\ pc' = "done"
    /\ UNCHANGED <<classifierVars, coerceVars, parseVars, adapterVars, cloudwatchVars, outputVars, orchestratorVars>>

NextAdapter == OpenFile \/ StartIterable \/ TickAdapter \/ ProcessLine \/ ReturnFindings

SpecAdapter == InitAdapter /\ [][NextAdapter]_vars

\* The concatenation of the classification results of lines 1..k, each line
\* parsed at the wall-clock time read for it.
RECURSIVE ResultsUpTo(_)
ResultsUpTo(k) ==
    IF k = 0 THEN <<>>
    ELSE ResultsUpTo(k - 1)
         \o _classify(rules, LogRecord(parse_log_line(lines[k], clock[k]).ts,
                                        parse_log_line(lines[k], clock[k]).msg,
                                        src,
                                        _infer_service_hint(src, parse_log_line(lines[k], clock[k]).msg),
                                        parse_log_line(lines[k], clock[k]).raw))

\* C10: the file and iterable adapters return the concatenation, in input
\* order, of the classification result of every input line; no line is
\* skipped, a malformed line does not abort the call, and n lines give at
\* least n Findings.
C10_AdaptersConcatenate ==
    /\ pc = "done" =>
          /\ done = Len(lines)
          /\ findings = ResultsUpTo(Len(lines))
          /\ Len(findings) >= Len(lines)
    /\ pc = "raised" => adapter = "file" /\ ~FileExists(path) /\ done = 0

C10_Witness ==
    /\ pc = "done"
    /\ adapter = "file"
    /\ lines = <<<<"{", "info", "}", NL>>, <<"AccessDenied", "Rate exceeded">>>>
    /\ Len(findings) = 3
    /\ findings[1].meta.rule = "none"
    /\ findings[2].meta.rule = "iam_access_denied"
    /\ findings[3].meta.rule = "throttling"

(***************************************************************************)
(* One call of process_cloudwatch against a remote store.                  *)
(***************************************************************************)
PageEvents ==
    <<[k \in {"timestamp", "message"} |->
          IF k = "timestamp" THEN NumVal(Big(1700000, 0))
          ELSE StrVal(<<"Task timed out after 3.00 seconds">>)],
      [k \in {"message"} |-> StrVal(<<"AccessDenied", "Rate exceeded">>)]>>

PageEventLists == {<<>>, <<PageEvents[1]>>, <<PageEvents[2], PageEvents[1]>>}

Responses ==
    {Response(FALSE, es, t) : es \in PageEventLists, t \in Tokens \cup {None}}
    \cup {Response(FALSE, <<>>, ""), Response(TRUE, <<>>, None)}

\* The page the store gives for token tok leads back to itself.
OnCycle(st, tok) ==
    \/ st[tok].nextToken = tok
    \/ /\ st[tok].nextToken \in Tokens
       /\ st[st[tok].nextToken].nextToken = tok

\* Every store over the tokens; a store may hand out tokens for ever, and
\* the pages it then repeats carry no events.
Stores ==
    {st \in [Tokens \cup {None} -> Responses] :
        \A tok \in Tokens : OnCycle(st, tok) => st[tok].events = <<>>}

Limits == {1000, 50000}

InitCloudwatch ==
    /\ pc = "start"
    /\ rules_arg = RulesArg(TRUE, <<>>)
    /\ rules = DEFAULT_RULES
    /\ rec = NoRecord
    /\ matched = <<>>
    /\ CoerceIdle
    /\ OutputIdle
    /\ OrchestratorIdle
    /\ now \in 0..MaxNow
    /\ line = <<>>
    /\ parsed = NoParsed
    /\ ev = EmptyDict
    /\ log_group \in LogGroups
    /\ adapter = "cloudwatch"
    /\ path = ""
    /\ source_name = None
    /\ lines = <<>>
    /\ src = ""
    /\ done = 0
    /\ findings = <<>>
    /\ clock = <<>>
    /\ limit \in Limits
    /\ \/ boto3 = TRUE /\ store \in Stores
       \/ boto3 = FALSE /\ store = [t \in Tokens \cup {None} |-> NoResponse]
    /\ kwargs = NoKwargs
    /\ next_token = None
    /\ resp = NoResponse
    /\ requested = FALSE
    /\ returned = NoReturn
    /\ error = ""

\* import boto3 (or RuntimeError), the client, kwargs, next_token = None
ImportBoto3 ==
    /\ pc = "start"
    /\ error' = ImportError(boto3)
    /\ pc' = IF error' = "" THEN "loop" ELSE "raised"
    /\ kwargs' = IF error' = "" THEN InitialKwargs(log_group, limit) ELSE kwargs
    /\ UNCHANGED <<boto3, store, limit, next_token, resp, requested, returned,
                   classifierVars, coerceVars, parseVars, adapterVars, outputVars, orchestratorVars>>

\* One iteration of "while True": the request, the events of the page, the
\* token of the response, and the break and return when there is none.
FetchPage ==
    /\ pc = "loop"
    /\ kwargs' = NextKwargs(kwargs, next_token)
    /\ resp' = filter_log_events(store, kwargs')
    /\ requested' = TRUE
    /\ IF resp'.raises
       THEN /\ pc' = RequestFailure(findings).pc
            /\ returned' = RequestFailure(findings).returned
            /\ error' = RequestFailure(findings).error
            /\ UNCHANGED <<findings, next_token>>
       ELSE /\ findings' = findings \o PageFindings(rules, resp'.events, log_group, now)
            /\ next_token' = ResponseToken(resp')
            /\ pc' = IF Truthy(next_token') THEN "loop" ELSE "done"
            /\ returned' = IF Truthy(next_token') THEN returned ELSE Returned(findings')
            /\ UNCHANGED error
    /\ UNCHANGED <<boto3, store, limit, classifierVars, coerceVars, parseVars,
                   adapter, path, source_name, lines, src, done, clock, outputVars, orchestratorVars>>

NextCloudwatch == ImportBoto3 \/ FetchPage

SpecCloudwatch == InitCloudwatch /\ [][NextCloudwatch]_vars

\* The same call with one log group, limit and clock reading, against a
\* store whose pages never hand out the token they were asked with, where
\* the loop runs on for as long as it can.
InitCloudwatchFair ==
    /\ InitCloudwatch
    /\ \A tok \in Tokens : store[tok].nextToken # tok
    /\ log_group = "/aws/lambda/foo"
    /\ limit = 1000
    /\ now = 0

SpecCloudwatchFair == InitCloudwatchFair /\ [][NextCloudwatch]_vars /\ WF_vars(NextCloudwatch)

(***************************************************************************)
(* Claims about process_cloudwatch.                                        *)
(***************************************************************************)
\* C11: a call of process_cloudwatch fetches a bounded number of pages and
\* terminates, whatever the remote store answers, also when every response
\* carries a continuation token.
C11_CallTerminates == <>(pc \in {"done", "raised"})

\* The findings of the pages reached from the request with token tok, by
\* following each page's token until a page has none; at most k pages.
RECURSIVE FindingsFrom(_, _)
FindingsFrom(tok, k) ==
    IF k = 0 \/ store[tok].raises THEN <<>>
    ELSE PageFindings(rules, store[tok].events, log_group, now)
         \o (IF Truthy(store[tok].nextToken)
             THEN FindingsFrom(store[tok].nextToken, k - 1)
             ELSE <<>>)

\* C12: the first request carries no token and every later request carries
\* the token of the response before it; the loop goes on exactly while the
\* latest response has a token; the call returns the findings of every
\* event of every fetched page, in page order.
C12_FollowsToken ==
    /\ [](pc = "loop" /\ requested => Truthy(resp.nextToken))
    /\ [](pc = "done" =>
            /\ ~Truthy(resp.nextToken)
            /\ returned = Returned(findings)
            /\ findings = FindingsFrom(None, Cardinality(Tokens) + 1))
    /\ [][pc = "loop" =>
            kwargs'.nextToken = (IF requested THEN resp.nextToken ELSE None)]_vars

C12_Witness ==
    /\ pc = "done"
    /\ store[None].nextToken = "t2"
    /\ store["t2"].nextToken = "t1"
    /\ kwargs.nextToken = "t1"
    /\ store[None].events = <<PageEvents[2], PageEvents[1]>>
    /\ store["t1"].events = <<PageEvents[1]>>
    /\ Len(returned.value) = 4
    /\ returned.value[1].meta.rule = "iam_access_denied"
    /\ returned.value[2].meta.rule = "throttling"
    /\ returned.value[3].meta.rule = "lambda_timeout"
    /\ returned.value[4].meta.rule = "lambda_timeout"

\* C13: when boto3 cannot be imported the call raises RuntimeError before
\* any remote request is issued and returns nothing.
C13_MissingDependencyFailsFast ==
    ~boto3 /\ pc # "start" =>
        /\ pc = "raised"
        /\ error = "RuntimeError"
        /\ ~requested
        /\ returned = NoReturn

C13_Witness == ~boto3 /\ pc = "raised" /\ error = "RuntimeError"

\* C14: when a page request fails the call ends with the error at its
\* caller and hands back nothing, also when earlier pages gave findings.
C14_RequestFailureAborts ==
    resp.raises => pc = "raised" /\ error = "ClientError" /\ returned = NoReturn

C14_Witness ==
    /\ resp.raises
    /\ pc = "raised"
    /\ kwargs.nextToken = "t1"
    /\ Len(findings) = 2

(***************************************************************************)
(* The output functions applied to a list of findings the reader made.     *)
(***************************************************************************)
MaxFindings == 2

\* Lines as they reach process_iterable, with a timestamp in seconds, one
\* in milliseconds written as a string, and none.
OutputLines ==
    <<<<"AccessDenied", "Rate exceeded">>,
      <<"info">>,
      <<"S3", "AccessDenied">>,
      <<"{", "\"timestamp\":", "1700000000", ",", "\"message\":", Quote, "CrashLoopBackOff", Quote, "}">>,
      <<"{", "\"timestamp\":", Quote, "1700000000000", Quote, ",",
        "\"message\":", Quote, "Task timed out after 3.00 seconds", Quote, "}">>>>

\* The findings process_iterable makes of those lines.
OutputFindings ==
    UNION {{LineFindings(DEFAULT_RULES, OutputLines[i], "iterable", 0)[j] :
               j \in 1..Len(LineFindings(DEFAULT_RULES, OutputLines[i], "iterable", 0))} :
           i \in 1..Len(OutputLines)}

FindingLists == UNION {[1..k -> OutputFindings] : k \in 0..MaxFindings}

InitOutput ==
    /\ pc = "ready"
    /\ ClassifierIdle
    /\ CoerceIdle
    /\ ParseIdle
    /\ adapter = ""
    /\ path = ""
    /\ source_name = None
    /\ lines = <<>>
    /\ src = ""
    /\ done = 0
    /\ findings \in FindingLists
    /\ clock = <<>>
    /\ CloudwatchIdle
    /\ OutputIdle
    /\ OrchestratorIdle

Summarize ==
    /\ pc = "ready"
    /\ summary' = _summarize(findings)
    /\ pc' = "summarized"
    /\ UNCHANGED <<payload, file, classifierVars, coerceVars, parseVars, adapterVars,
                   cloudwatchVars, orchestratorVars>>

ToAgentBPayload ==
    /\ pc = "ready"
    /\ payload' = to_agent_b_payload(findings)
    /\ pc' = IF payload'.raised THEN "raised" ELSE "payload"
    /\ UNCHANGED <<summary, file, classifierVars, coerceVars, parseVars, adapterVars,
                   cloudwatchVars, orchestratorVars>>

DumpFindingsJsonl ==
    /\ pc = "ready"
    /\ file' = dump_findings_jsonl(findings).content
    /\ pc' = IF dump_findings_jsonl(findings).raised THEN "dump raised" ELSE "dumped"
    /\ UNCHANGED <<summary, payload, classifierVars, coerceVars, parseVars, adapterVars,
                   cloudwatchVars, orchestratorVars>>

NextOutput == Summarize \/ ToAgentBPayload \/ DumpFindingsJsonl

SpecOutput == InitOutput /\ [][NextOutput]_vars

(***************************************************************************)
(* Claims about the output functions.                                      *)
(***************************************************************************)
\* The sum of the values of a dictionary of counts.
RECURSIVE SumValues(_)
SumValues(d) ==
    IF DOMAIN d = {} THEN 0
    ELSE LET k == CHOOSE x \in DOMAIN d : TRUE
         IN  d[k] + SumValues([x \in DOMAIN d \ {k} |-> d[x]])

\* C15: the counts of by_category and the counts of by_severity each sum to
\* the number of findings, and every key is a category, or a severity, of a
\* finding of the list.
C15_SummaryCountsSum ==
    pc = "summarized" =>
        /\ SumValues(summary.by_category) = Len(findings)
        /\ SumValues(summary.by_severity) = Len(findings)
        /\ DOMAIN summary.by_category = {findings[i].category : i \in 1..Len(findings)}
        /\ DOMAIN summary.by_severity = {findings[i].severity : i \in 1..Len(findings)}

C15_Witness ==
    /\ pc = "summarized"
    /\ Len(findings) = 2
    /\ findings[1].category = findings[2].category
    /\ summary.by_category[findings[1].category] = 2

\* C16: to_agent_b_payload gives, for every list of findings, a payload with
\* schema "agent_a.v1", one serialized entry per finding in the list's
\* order, and the summary of the list.
C16_PayloadShape ==
    pc \in {"payload", "raised"} =>
        /\ ~payload.raised
        /\ payload.value.schema = "agent_a.v1"
        /\ Len(payload.value.findings) = Len(findings)
        /\ \A i \in 1..Len(findings) :
              /\ \A k \in DOMAIN findings[i] : payload.value.findings[i][k] = findings[i][k]
              /\ payload.value.findings[i].ts_iso = IsoFormat(findings[i].ts)
        /\ payload.value.summary_counts = _summarize(findings)

\* The lines of a text: it is cut after every line break.
RECURSIVE TextFileLines(_, _)
TextFileLines(content, current) ==
    IF content = <<>> THEN (IF current = <<>> THEN <<>> ELSE <<current>>)
    ELSE IF Head(content) = Char(NL) THEN <<current>> \o TextFileLines(Tail(content), <<>>)
    ELSE TextFileLines(Tail(content), Append(current, Head(content)))

\* C17: the file written for n findings has n lines, and its i-th line is
\* the serialization of the i-th finding.
C17_OneLinePerFinding ==
    pc \in {"dumped", "dump raised"} =>
        /\ pc = "dumped"
        /\ Len(TextFileLines(file, <<>>)) = Len(findings)
        /\ \A i \in 1..Len(findings) :
              TextFileLines(file, <<>>)[i] = <<Json(to_dict(findings[i]))>>

(***************************************************************************)
(* Construction of the classifier with a caller's rule table.              *)
(***************************************************************************)
\* A caller's rule table in which two rules carry the same name.
DUPLICATE_RULES == <<
    Rule("auth", "iam_access_denied", "iam_access_denied", "high",
         "Request blocked by IAM/authorization policy.", "fix_iam_policy", 95, None),
    Rule("auth", "throttling", "throttling", "medium",
         "Service is throttling due to rate/capacity limits.", "retry_with_backoff_or_scale", 90, None)
>>

InitIntegrity ==
    /\ pc = "new"
    /\ rules_arg \in {RulesArg(FALSE, DUPLICATE_RULES), RulesArg(FALSE, CUSTOM_RULES)}
    /\ rules = <<>>
    /\ rec \in Records
    /\ matched = <<>>
    /\ CoerceIdle
    /\ ParseIdle
    /\ AdapterIdle
    /\ CloudwatchIdle
    /\ OutputIdle
    /\ OrchestratorIdle

SpecIntegrity == InitIntegrity /\ [][Next]_vars

HasDuplicateNames(list) ==
    \E i, j \in 1..Len(list) : i # j /\ list[i].name = list[j].name

\* C18: constructing the classifier with a rule table in which two rules
\* have the same name fails: the object is never ready and no record is
\* classified with that table.
C18_DuplicateNamesRejected ==
    HasDuplicateNames(rules_arg.list) => pc \in {"new", "failed"} /\ rules = <<>>

(***************************************************************************)
(* The orchestrator (src/backend/core/orchestrator.py): analyze_log builds *)
(* the graph and runs it on one log.  The graph library is not part of the *)
(* repository: a node runs, then the node its outgoing edge or conditional *)
(* edge names; a node without outgoing edge ends the run, or, with a       *)
(* library that validates dead ends, makes graph.compile() raise.          *)
(***************************************************************************)
\* graph.add_node
NODES == {"classify", "remediate", "runbook", "slack_notify", "jira_create"}

\* graph.add_edge, and set_finish_point("jira_create")
EDGES == {<<"remediate", "slack_notify">>, <<"slack_notify", "jira_create">>, <<"jira_create", "END">>}

\* graph.add_conditional_edges("classify", tools_condition)
CONDITIONAL == {"classify"}

\* graph.set_entry_point("classify")
ENTRY_POINT == "classify"

\* Nodes with neither an edge nor a conditional edge leaving them.
DeadEnds == {n \in NODES : n \notin CONDITIONAL /\ ~\E e \in EDGES : e[1] = n}

OrchestratorState(category, remediation, runbook, slack, jira, stage) ==
    [category |-> category, remediation |-> remediation, runbook |-> runbook,
     slack_notification_status |-> slack, jira_issue_created |-> jira, stage |-> stage]

\* initial = {"log": log, "analysis_context": {}, "processing_info": {"stage": "start"}}
InitialState == OrchestratorState(None, None, None, None, None, "start")

\* The state analyze_log returns when building or running the graph raised.
ErrorState == OrchestratorState("Unknown", "", None, "False", "False", "orchestration_error")

\* A.categorize_log(log): the category of the first finding of the log
categorize_log(l, n) == LineFindings(DEFAULT_RULES, l, "single_log", n)[1].category

tools_condition(st) == IF st.category = "runbook" THEN "runbook" ELSE "remediate"

\* The node that runs after node n has returned state st; "END" when the
\* run is over.
Successor(n, st) ==
    IF n \in CONDITIONAL THEN tools_condition(st)
    ELSE IF \E e \in EDGES : e[1] = n THEN (CHOOSE e \in EDGES : e[1] = n)[2]
    ELSE "END"

\* agent_c_codegen._default_action
_default_action(cat) ==
    CASE cat = "IAM"        -> "IAM_POLICY_UPDATE"
      [] cat = "THROTTLING" -> "CAPACITY_SCALE"
      [] cat = "TIMEOUT"    -> "TIMEOUT_TUNE"
      [] cat = "QUOTA"      -> "QUOTA_INCREASE"
      [] cat = "SCALING"    -> "CAPACITY_SCALE"
      [] OTHER              -> "CONFIG_FIX"

\* agent_c_codegen.generate: the artifacts for a signal's category; the
\* Terraform and CLI texts are kept by the name of the snippet.  No node of
\* the graph and no line of analyze_log calls it.
generate(cat, chosen_action) ==
    LET action == IF Truthy(chosen_action) THEN chosen_action ELSE _default_action(cat)
    IN  [terraform |-> CASE action = "IAM_POLICY_UPDATE"      -> "_tf_s3_getobject_policy"
                         [] action = "RESOURCE_POLICY_UPDATE" -> "_tf_kms_key_policy_skeleton"
                         [] action \in {"CAPACITY_SCALE", "SCALING_POLICY_TUNE"} -> "_tf_asg_desired_capacity"
                         [] action = "RETRY_POLICY"           -> "# Retry policy is an app-level change"
                         [] action = "TIMEOUT_TUNE"           -> "_tf_lambda_timeout_memory"
                         [] action = "QUOTA_INCREASE"         -> "# Use aws_servicequotas_*"
                         [] OTHER                             -> "_tf_example_config_fix",
         cli |-> action]

\* What the collaborators do in a run: whether the graph library rejects
\* dead ends, which node body raises (classify, remediate and runbook catch
\* nothing), whether agent C was imported, and what Slack and Jira answer.
Envs ==
    [dead_end_check : BOOLEAN,
     raises : {None, "classify", "remediate", "runbook"},
     agent_c : BOOLEAN,
     slack_success : BOOLEAN,
     jira_success : BOOLEAN]

OrchestratorLogs ==
    {<<>>, <<"info">>, <<"AccessDenied">>, <<"Task timed out after 3.00 seconds">>,
     <<"ThrottlingException", "DynamoDB", "PutItem", "Rate exceeded">>,
     <<"{", "\"message\":", Quote, "CrashLoopBackOff", Quote, "}">>}

InitOrchestrator ==
    /\ pc = "build"
    /\ ClassifierIdle
    /\ CoerceIdle
    /\ ParseIdle
    /\ AdapterIdle
    /\ CloudwatchIdle
    /\ OutputIdle
    /\ log \in OrchestratorLogs
    /\ env \in Envs
    /\ state = InitialState
    /\ visited = <<>>

\* compiled = build_orchestrator()
BuildOrchestrator ==
    /\ pc = "build"
    /\ IF env.dead_end_check /\ DeadEnds # {}
       THEN pc' = "error" /\ state' = ErrorState
       ELSE pc' = ENTRY_POINT /\ state' = InitialState
    /\ UNCHANGED <<log, env, visited, classifierVars, coerceVars, parseVars, adapterVars,
                   cloudwatchVars, outputVars>>

\* A node has run: it raised, and analyze_log returns the error state, or
\* it returned st, and the run goes on where the graph's edges lead.
NodeRan(n, st) ==
    /\ pc = n
    /\ IF env.raises = n
       THEN pc' = "error" /\ state' = ErrorState /\ UNCHANGED visited
       ELSE pc' = Successor(n, st) /\ state' = st /\ visited' = Append(visited, n)
    /\ UNCHANGED <<log, env, classifierVars, coerceVars, parseVars, adapterVars,
                   cloudwatchVars, outputVars>>

_node_classify ==
    NodeRan("classify", [state EXCEPT !.category = categorize_log(log, now), !.stage = "classified"])

_node_remediate ==
    NodeRan("remediate", [state EXCEPT !.remediation = "remediation", !.stage = "remediated"])

_node_runbook ==
    NodeRan("runbook", [state EXCEPT !.runbook = "runbook", !.stage = "runbook_synthesized"])

_node_notify_slack ==
    NodeRan("slack_notify",
            [state EXCEPT !.slack_notification_status =
                              IF env.agent_c /\ env.slack_success THEN "True" ELSE "False",
                          !.stage = "notification_sent"])

_node_create_jira_issue ==
    NodeRan("jira_create",
            [state EXCEPT !.jira_issue_created = IF env.jira_success THEN "True" ELSE "False",
                          !.stage = "jira_issue_created"])

NextOrchestrator ==
    \/ BuildOrchestrator
    \/ _node_classify
    \/ _node_remediate
    \/ _node_runbook
    \/ _node_notify_slack
    \/ _node_create_jira_issue

SpecOrchestrator == InitOrchestrator /\ [][NextOrchestrator]_vars

\* C20: a run of the graph that reaches END has executed classify, then
\* remediate or runbook, then slack_notify, then jira_create.
C20_RunEndsThroughSlackAndJira ==
    pc = "END" =>
        visited \in {<<"classify", "remediate", "slack_notify", "jira_create">>,
                     <<"classify", "runbook", "slack_notify", "jira_create">>}

\* C21: for a log that carries a throttling signal, the result analyze_log
\* returns, here after a run that went through the graph to its end, has a
\* "signal" entry whose category is THROTTLING or CONFIG and a "code" entry
\* that holds a "terraform" artifact.
C21_ResultHasSignalAndCode ==
    /\ pc = "END"
    /\ \E k \in 1..Len(log) : log[k] \in PatternHits("throttling")
    => /\ "signal" \in DOMAIN state
       /\ state.signal.category \in {"THROTTLING", "CONFIG"}
       /\ "code" \in DOMAIN state
       /\ "terraform" \in DOMAIN state.code

(***************************************************************************)
(* Long lines through process_iterable: the line is parsed, then the       *)
(* record is built and classified.                                         *)
(***************************************************************************)
\* A phrase of 99 characters that no rule and no service pattern matches.
FILLER == "xxxxxxxxxxxxxxxxxxxxxxxxxxxxxxxxxxxxxxxxxxxxxxxxxxxxxxxxxxxxxxxxxxxxxxxxxxxxxxxxxxxxxxxxxxxxxxxxxxx"

LongMessages ==
    {head \o [i \in 1..k |-> FILLER] \o tail :
        head \in {<<>>, <<"info">>},
        k \in 0..6,
        tail \in {<<>>, <<"Rate exceeded">>, <<"CrashLoopBackOff">>, <<"AccessDenied", "Rate exceeded">>}}

LongLines ==
    LongMessages
    \cup {m \o <<NL>> : m \in LongMessages}
    \cup {<<"{", "\"message\":", Quote>> \o m \o <<Quote, "}">> : m \in LongMessages}

InitExcerpt ==
    /\ pc = "call"
    /\ rules_arg = RulesArg(TRUE, <<>>)
    /\ rules = DEFAULT_RULES
    /\ rec = NoRecord
    /\ matched = <<>>
    /\ CoerceIdle
    /\ now = 0
    /\ line \in LongLines
    /\ parsed = NoParsed
    /\ ev = EmptyDict
    /\ log_group = ""
    /\ AdapterIdle
    /\ CloudwatchIdle
    /\ OutputIdle
    /\ OrchestratorIdle

\* rec = LogRecord(ts=ts, message=msg, source=source_name, ...);
\* self._classify(rec), with process_iterable's default source_name
ClassifyParsed ==
    /\ pc = "returned"
    /\ rec' = LogRecord(parsed.ts, parsed.msg, "iterable",
                        _infer_service_hint("iterable", parsed.msg), parsed.raw)
    /\ matched' = _classify(rules, rec')
    /\ pc' = "classified"
    /\ UNCHANGED <<rules_arg, rules, coerceVars, parseVars, adapterVars, cloudwatchVars,
                   outputVars, orchestratorVars>>

NextExcerpt == ParseLine \/ ClassifyParsed

SpecExcerpt == InitExcerpt /\ [][NextExcerpt]_vars

\* The number of characters of a text.
RECURSIVE CharLen(_)
CharLen(text) ==
    IF text = <<>> THEN 0
    ELSE Len(Head(text)) + (IF Len(text) > 1 THEN 1 + CharLen(Tail(text)) ELSE 0)

\* e spells the first characters of m.
IsCharPrefix(e, m) ==
    /\ Len(e) <= Len(m)
    /\ \A k \in 1..(Len(e) - 1) : e[k] = m[k]
    /\ e # <<>> => /\ Len(e[Len(e)]) <= Len(m[Len(e)])
                   /\ e[Len(e)] = SubSeq(m[Len(e)], 1, Len(e[Len(e)]))

\* The message the line carries: its "message" field, or the line itself.
CarriedMessage(l) ==
    IF Len(l) >= 2 /\ l[1] = "{" THEN SubSeq(l, 4, Len(l) - 2) ELSE Chomp(l)

\* C24: the excerpt of every Finding is the prefix of the record's message
\* of min(500, len(message)) characters; the parser hands on the message in
\* full; rules are matched against the full message.
C24_ExcerptIsCappedPrefix ==
    /\ pc \in {"returned", "classified"} => parsed.msg = CarriedMessage(line)
    /\ pc = "classified" =>
          /\ rec.message = CarriedMessage(line)
          /\ \A j \in 1..Len(matched) :
                /\ IsCharPrefix(matched[j].message_excerpt, rec.message)
                /\ CharLen(matched[j].message_excerpt)
                      = (IF CharLen(rec.message) < 500 THEN CharLen(rec.message) ELSE 500)
          /\ \A i \in 1..Len(rules) :
                Search(rules[i].pattern, rec.message)
                    <=> \E j \in 1..Len(matched) : matched[j].meta.rule = rules[i].name

C24_Witness ==
    /\ pc = "classified"
    /\ CharLen(rec.message) = 513
    /\ Len(matched) = 1
    /\ matched[1].meta.rule = "throttling"
    /\ CharLen(matched[1].message_excerpt) = 500
    /\ ~Search("throttling", matched[1].message_excerpt)

(***************************************************************************)
(* The service origin inferencer on its own: one call of                   *)
(* _infer_service_hint on a source and a message.                          *)
(***************************************************************************)
HintSources ==
    {"", "iterable", "file:app.log", "file:s3-sync.log", "cloudwatch:/aws/lambda/foo",
     "cloudwatch:/aws/rds/db"}

HintWords ==
    {"REPORT RequestId", "Method request", "ELB-HealthChecker", "ecs-agent",
     "CrashLoopBackOff", "S3", "DynamoDB", "mysql", "info"}

InitHint ==
    /\ pc = "call"
    /\ rules_arg = RulesArg(TRUE, <<>>)
    /\ rules = DEFAULT_RULES
    /\ rec = NoRecord
    /\ matched = <<>>
    /\ CoerceIdle
    /\ now = 0
    /\ line \in Texts(HintWords, MaxMsgLen)
    /\ parsed = NoParsed
    /\ ev = EmptyDict
    /\ log_group = ""
    /\ adapter = ""
    /\ path = ""
    /\ source_name = None
    /\ lines = <<>>
    /\ src \in HintSources
    /\ done = 0
    /\ findings = <<>>
    /\ clock = <<>>
    /\ CloudwatchIdle
    /\ OutputIdle
    /\ OrchestratorIdle

\* rec = LogRecord(ts=ts, message=msg, source=src,
\*                 service_hint=_infer_service_hint(src, msg), raw=raw)
InferServiceHint ==
    /\ pc = "returned"
    /\ rec' = LogRecord(parsed.ts, parsed.msg, src, _infer_service_hint(src, parsed.msg),
                        parsed.raw)
    /\ pc' = "inferred"
    /\ UNCHANGED <<rules_arg, rules, matched, coerceVars, parseVars, adapterVars,
                   cloudwatchVars, outputVars, orchestratorVars>>

NextHint == ParseLine \/ InferServiceHint

SpecHint == InitHint /\ [][NextHint]_vars

\* The entries, by position in the declared order, whose pattern matches the
\* source or the message.
MatchingHints(source, message) ==
    {i \in 1..8 : \E k \in 1..(Len(message) + 1) :
        (<<source>> \o message)[k]
            \in HintHits(<<"lambda", "apigw", "alb", "ecs", "eks", "s3", "dynamodb", "rds">>[i])}

\* C27: the inferencer returns the tag of the first entry, in the order
\* lambda, apigw, alb, ecs, eks, s3, dynamodb, rds, whose pattern matches the
\* source and message put together, and none when no pattern matches; an
\* empty source with an empty message gives none.
C27_EarliestTagWins ==
    pc = "inferred" =>
        /\ MatchingHints(src, line) = {} => rec.service_hint = None
        /\ MatchingHints(src, line) # {} =>
              \E i \in MatchingHints(src, line) :
                  /\ \A j \in MatchingHints(src, line) : i <= j
                  /\ rec.service_hint
                        = <<"lambda", "apigw", "alb", "ecs", "eks", "s3", "dynamodb", "rds">>[i]
        /\ (src = "" /\ line = <<>>) => rec.service_hint = None

C27_Witness ==
    /\ pc = "inferred"
    /\ src = "file:s3-sync.log"
    /\ line = <<"mysql", "CrashLoopBackOff">>
    /\ MatchingHints(src, line) = {5, 6, 8}
    /\ rec.service_hint = "eks"

(***************************************************************************)
(* The classifier object over its life: construction, then a call of       *)
(* _classify, then a call of the file or the iterable adapter.             *)
(***************************************************************************)
RulesRecords ==
    {LogRecord(Seconds(1700000000), m, "iterable", None, EmptyDict) :
        m \in {<<"info">>, <<"Rate exceeded", "CrashLoopBackOff">>}}

InitRules ==
    /\ pc = "new"
    /\ rules_arg \in RuleArgs
    /\ rules = <<>>
    /\ rec \in RulesRecords
    /\ matched = <<>>
    /\ CoerceIdle
    /\ ParseIdle
    /\ CloudwatchIdle
    /\ OutputIdle
    /\ OrchestratorIdle
    /\ src = ""
    /\ done = 0
    /\ findings = <<>>
    /\ clock = <<>>
    /\ \/ /\ adapter = "file"
          /\ path \in {"app.log", "missing.log"}
          /\ source_name = None
          /\ lines \in IF FileExists(path)
                       THEN {<<>>, <<<<"Rate exceeded", "CrashLoopBackOff", NL>>, <<"info">>>>}
                       ELSE {<<>>}
       \/ /\ adapter = "iterable"
          /\ path = ""
          /\ source_name = "iterable"
          /\ lines \in Iterables

\* reader.process_file(...) or reader.process_iterable(...) on the object,
\* before or after a call of _classify
CallAdapter ==
    /\ pc \in {"ready", "classified"}
    /\ pc' = "start"
    /\ UNCHANGED <<classifierVars, coerceVars, parseVars, adapterVars, cloudwatchVars,
                   outputVars, orchestratorVars>>

NextRules ==
    \/ Construct
    \/ Classify
    \/ CallAdapter
    \/ OpenFile
    \/ StartIterable
    \/ TickAdapter
    \/ ProcessLine
    \/ ReturnFindings

SpecRules == InitRules /\ [][NextRules]_vars

\* The names of the rules of a table.
RuleNames(list) == {list[i].name : i \in 1..Len(list)}

\* C30: a classifier built with no rule list or an empty one holds the default
\* table, one built with a non-empty list holds exactly that list, in its
\* order; the table it holds is the same after every classify and adapter
\* call, and every Finding comes from a rule of that table or is the fallback.
C30_RuleTableHeld ==
    /\ (pc # "new" /\ (rules_arg.is_none \/ rules_arg.list = <<>>)) => rules = DEFAULT_RULES
    /\ (pc # "new" /\ ~rules_arg.is_none /\ rules_arg.list # <<>>) =>
          /\ rules = rules_arg.list
          /\ \A j \in 1..Len(matched) : matched[j].meta.rule \notin RuleNames(DEFAULT_RULES)
          /\ \A j \in 1..Len(findings) : findings[j].meta.rule \notin RuleNames(DEFAULT_RULES)
    /\ \A j \in 1..Len(matched) : matched[j].meta.rule \in RuleNames(rules) \cup {"none"}
    /\ \A j \in 1..Len(findings) : findings[j].meta.rule \in RuleNames(rules) \cup {"none"}

C30_Witness ==
    /\ pc = "done"
    /\ rules_arg = RulesArg(FALSE, CUSTOM_RULES)
    /\ rules = CUSTOM_RULES
    /\ Len(matched) = 2
    /\ Len(findings) >= 1
    /\ findings[1].meta.rule = "any_throttle"

=============================================================================
